---- MODULE Spec2Model ----
(***************************************************************************)
(* SocialAi node orchestrator: the WorkerManager (worker table, restart    *)
(* counts, restart timers), the Healdec health registry and scan, and the  *)
(* Healdec safeUpdate / rollback protocol.                                 *)
(*                                                                         *)
(* The orchestrator runs on one JavaScript event loop: every callback      *)
(* (a process 'exit' handler, a setTimeout callback, a synchronous method) *)
(* runs to completion, so each is one action.  An async method is cut at   *)
(* its awaits.                                                             *)
(***************************************************************************)
EXTENDS Integers, FiniteSets, Sequences, Bags, TLC

\* ------------------------------------------------------------------------
\* Configuration
\* ------------------------------------------------------------------------

\* CONFIG.workers: the configured worker names (two of the seven suffice:
\* one enabled, one disabled).
WorkerNames == {"farcaster", "reddit"}

\* CONFIG.workers[name].enabled as documented: farcaster is enabled, reddit
\* is not.
EnabledByDefault(name) == name = "farcaster"

\* Object.entries(CONFIG.workers): the names in the order of the object.
ScanOrder == <<"farcaster", "reddit">>

\* CONFIG.healdec.maxRestarts
maxRestarts == 3

\* CONFIG.healdec.restartDelay (ms)
restartDelay == 5000

\* restart policy: backoffMultiplier (the literal 2 of Math.pow(2, restartCount))
backoffMultiplier == 2

\* HEALDEC_CONFIG.safeUpdates.keepBackups: the snapshots kept for a target
keepBackups == 5

\* The exit code node reports for a process ended by a signal (null).
NullCode == -1

\* Exit codes a worker process can end with.
ExitCodes == {0, 1, NullCode}

\* ------------------------------------------------------------------------
\* Bounds of the model
\* ------------------------------------------------------------------------

\* Most pending restart timers plus live (running or killed-but-not-yet-exited)
\* processes, all workers together.  Every pending timer becomes one live
\* process when it fires, so only the calls that add a timer without ending
\* a process (restartWorker, the scan) are held back by it.
MaxLoad == 2

\* safeUpdate calls made in a run (each may overlap the others).
MaxCalls == 2

\* Snapshots taken, all targets together, by a caller that makes one
\* safeUpdate call after the other.
MaxSnapshots == 6

\* HTTP requests of the admin worker-health view in flight at one time.
MaxInFlight == 3

VARIABLES
    workers,        \* WorkerManager.workers: name -> state of the tracked handle
    restartCounts,  \* WorkerManager.restartCounts: name -> count
    healthChecks,   \* HealdecEngine.healthChecks: name -> BOOLEAN
    timers,         \* pending setTimeout callbacks (a bag of closures)
    orphans,        \* name -> live processes whose handle was overwritten in the Map
    killed,         \* name -> processes sent kill() whose 'exit' is not yet delivered
    alerts,         \* alerts raised by alertAdmin
    maxReached,     \* names for which "Max restarts reached" was logged
    windowElapsed,  \* name -> resetInterval has passed since the first restart of the window
    config,         \* CONFIG.workers: name -> the live configuration of the worker
    calls,          \* the safeUpdate calls: call -> where it stands and what it holds
    snapshots,      \* the retained backups: name -> ConfigSnapshots, newest last
    enabled,        \* CONFIG.workers[name].enabled
    scan,           \* the scanDependencies call: where it stands and its results
    noted,          \* what is noted of the past of the run (only where noted.on)
    admin           \* WorkerHealthComponent (admin UI): its fields and its HTTP requests in flight

workerVars == <<workers, restartCounts, healthChecks, timers, orphans, killed,
                alerts, maxReached, windowElapsed, noted>>

updateVars == <<config, calls, snapshots>>

scanVars == <<enabled, scan>>

\* Nothing is noted of the past.
Unnoted == [on |-> FALSE, autoStarts |-> [w \in WorkerNames |-> 0], stopped |-> FALSE]

\* The new notes n are taken where the past is being noted.  The notes are:
\* autoStarts, per worker the processes started by handleWorkerFailure timers
\* in the current reset window (counted up to maxRestarts + 1), and stopped,
\* whether stopAllWorkers has been called.
Note(n) == IF noted.on THEN n ELSE noted

\* CONFIG.workers[name].enabled
Enabled(name) == enabled[name]

\* ------------------------------------------------------------------------
\* Helpers
\* ------------------------------------------------------------------------

\* Map.set(key, value)
MapSet(m, k, v) == [x \in DOMAIN m \cup {k} |-> IF x = k THEN v ELSE m[x]]

\* Map.delete(key)
MapDelete(m, k) == [x \in DOMAIN m \ {k} |-> m[x]]

Pow(b, n) == IF n = 0 THEN 1 ELSE IF n = 1 THEN b ELSE IF n = 2 THEN b * b
             ELSE b * b * b

\* this.restartCounts.get(name) || 0
GetRestartCount(name) == IF name \in DOMAIN restartCounts THEN restartCounts[name] ELSE 0

\* A registry read that reports a name never set as healthy.
checkWorkerHealthDefaultTrue(name) ==
    IF name \in DOMAIN healthChecks THEN healthChecks[name] ELSE TRUE

\* checkWorkerHealth(name): this.healthChecks.get(name) || false
checkWorkerHealth(name) == IF name \in DOMAIN healthChecks THEN healthChecks[name] ELSE FALSE

\* The documented probe of a worker, checkWorkerHealth(workerName) returning
\* a health object: processRunning is `worker !== undefined` for the handle
\* in workerManager.workers; recentActivity (last successful run less than 5
\* minutes ago) and lowErrorRate (error rate below 0.05) come from the
\* worker's statistics; healthy is the conjunction of the three checks.
healthObject(workerName, recentActivity, lowErrorRate) ==
    LET checks == [processRunning |-> workerName \in DOMAIN workers,
                   recentActivity |-> recentActivity,
                   lowErrorRate   |-> lowErrorRate]
    IN  [name    |-> workerName,
         healthy |-> checks.processRunning /\ checks.recentActivity /\ checks.lowErrorRate,
         checks  |-> checks]

\* The tracked handle of name refers to a process that is still running.
TrackedRunning(name) == name \in DOMAIN workers /\ workers[name] = "running"

\* Live processes of a worker: tracked, orphaned and killed-not-yet-exited.
LiveCount(name) == (IF TrackedRunning(name) THEN 1 ELSE 0) + orphans[name] + killed[name]

\* The closures setTimeout holds for a worker.
TimersOf(name) == {t \in BagToSet(timers) : t.name = name}

PendingCount(name) == BagCardinality([t \in TimersOf(name) |-> timers[t]])

RECURSIVE LiveIn(_)
LiveIn(S) == IF S = {} THEN 0
             ELSE LET x == CHOOSE y \in S : TRUE IN LiveCount(x) + LiveIn(S \ {x})

\* Pending timers plus live processes.
Load == BagCardinality(timers) + LiveIn(WorkerNames)

\* The closure created by handleWorkerFailure / restartWorker: the captured
\* restartCount, the delay given to setTimeout and the method that made it.
Timer(name, restartCount, delay, via) ==
    [name |-> name, restartCount |-> restartCount, delay |-> delay, via |-> via]

Alert(level, component, message) ==
    [level |-> level, component |-> component, message |-> message]

\* alertAdmin(target, message): the level is always 'critical'.
alertAdmin(target, message) == alerts \cup {Alert("critical", target, message)}

\* ------------------------------------------------------------------------
\* WorkerManager
\* ------------------------------------------------------------------------

\* startWorker(name, config) for every name in S: spawn, this.workers.set
\* (an overwritten live handle stays alive, untracked), setWorkerHealth(name, true).
StartWorkerAll(S) ==
    /\ workers' = [x \in DOMAIN workers \cup S |->
                     IF x \in S THEN "running" ELSE workers[x]]
    /\ orphans' = [x \in WorkerNames |->
                     IF x \in S /\ TrackedRunning(x) THEN orphans[x] + 1 ELSE orphans[x]]
    /\ healthChecks' = [x \in DOMAIN healthChecks \cup S |->
                          IF x \in S THEN TRUE ELSE healthChecks[x]]

startWorker(name) == StartWorkerAll({name})

\* startWorkers(): start every enabled worker (run once, at boot).
startWorkers ==
    /\ workers = << >> /\ healthChecks = << >> /\ timers = EmptyBag
    /\ \A w \in WorkerNames : LiveCount(w) = 0
    /\ StartWorkerAll({w \in WorkerNames : Enabled(w)})
    /\ UNCHANGED <<restartCounts, timers, killed, alerts, maxReached, windowElapsed>>
    /\ UNCHANGED <<updateVars, scanVars, admin, noted>>

\* handleWorkerFailure with the limit test written '>' instead of '>='.
handleWorkerFailureOffByOne(name) ==
    LET restartCount == GetRestartCount(name) IN
    IF restartCount > maxRestarts
    THEN /\ maxReached' = maxReached \cup {name}
         /\ alerts' = alertAdmin(name, "Max restart limit reached")
         /\ UNCHANGED timers
    ELSE /\ timers' = timers (+) SetToBag({Timer(name, restartCount,
                          restartDelay * Pow(backoffMultiplier, restartCount),
                          "handleWorkerFailure")})
         /\ UNCHANGED <<maxReached, alerts>>

\* handleWorkerFailure(name, config), on the state left by the exit handler.
handleWorkerFailure(name) ==
    LET restartCount == GetRestartCount(name) IN
    IF restartCount >= maxRestarts
    THEN /\ maxReached' = maxReached \cup {name}
         /\ alerts' = alertAdmin(name, "Max restart limit reached")
         /\ UNCHANGED timers
    ELSE /\ timers' = timers (+) SetToBag({Timer(name, restartCount,
                          restartDelay * Pow(backoffMultiplier, restartCount),
                          "handleWorkerFailure")})
         /\ UNCHANGED <<maxReached, alerts>>

\* The exit handler calling handleWorkerFailure whatever the exit code.
ExitAnyCode(name, kind, code) ==
    /\ \/ /\ kind = "tracked" /\ TrackedRunning(name)
          /\ workers' = MapSet(workers, name, "exited")
          /\ UNCHANGED <<orphans, killed>>
       \/ /\ kind = "orphan" /\ orphans[name] > 0
          /\ orphans' = [orphans EXCEPT ![name] = @ - 1]
          /\ UNCHANGED <<workers, killed>>
       \/ /\ kind = "killed" /\ killed[name] > 0
          /\ killed' = [killed EXCEPT ![name] = @ - 1]
          /\ UNCHANGED <<workers, orphans>>
    /\ healthChecks' = MapSet(healthChecks, name, FALSE)
    /\ handleWorkerFailure(name)
    /\ windowElapsed' = [windowElapsed EXCEPT ![name] = FALSE]
    /\ UNCHANGED <<restartCounts, config, calls, snapshots, enabled, admin, scan, noted>>

\* worker.on('exit', code): a live process of name ends.  kind says which one:
\* the tracked one (its handle stays in the Map), an orphan, or a killed one.
Exit(name, kind, code) ==
    /\ \/ /\ kind = "tracked" /\ TrackedRunning(name)
          /\ workers' = MapSet(workers, name, "exited")
          /\ UNCHANGED <<orphans, killed>>
       \/ /\ kind = "orphan" /\ orphans[name] > 0
          /\ orphans' = [orphans EXCEPT ![name] = @ - 1]
          /\ UNCHANGED <<workers, killed>>
       \/ /\ kind = "killed" /\ killed[name] > 0
          /\ killed' = [killed EXCEPT ![name] = @ - 1]
          /\ UNCHANGED <<workers, orphans>>
    /\ healthChecks' = MapSet(healthChecks, name, FALSE)
    /\ IF code # 0
       THEN /\ handleWorkerFailure(name)
            /\ windowElapsed' = [windowElapsed EXCEPT ![name] = FALSE]
       ELSE UNCHANGED <<timers, maxReached, alerts, windowElapsed>>
    /\ UNCHANGED <<restartCounts, config, calls, snapshots, enabled, admin, scan, noted>>

\* The timer callback without its startWorker call.
FireTimerNoStart(t) ==
    /\ t \in BagToSet(timers)
    /\ timers' = timers (-) SetToBag({t})
    /\ restartCounts' = MapSet(restartCounts, t.name, t.restartCount + 1)
    /\ UNCHANGED <<workers, orphans, healthChecks, killed, alerts, maxReached,
                   windowElapsed, config, calls, snapshots, enabled, admin, scan, noted>>

\* The setTimeout callback of handleWorkerFailure / restartWorker:
\* startWorker(name, config); restartCounts.set(name, restartCount + 1).
FireTimer(t) ==
    /\ t \in BagToSet(timers)
    /\ timers' = timers (-) SetToBag({t})
    /\ startWorker(t.name)
    /\ restartCounts' = MapSet(restartCounts, t.name, t.restartCount + 1)
    /\ noted' = Note([noted EXCEPT !.autoStarts[t.name] =
                         IF t.via = "handleWorkerFailure" /\ @ <= maxRestarts
                         THEN @ + 1 ELSE @])
    /\ UNCHANGED <<killed, alerts, maxReached, windowElapsed, config, calls, snapshots,
                   enabled, admin, scan>>

\* The same callback when the worker cannot be launched.  "throws":
\* startWorker throws (join or spawn), so neither this.workers.set nor the
\* restartCounts.set after the call is reached.  "error": spawn returns a
\* handle and reports the failure later, with an 'error' event; startWorker
\* completes around a handle that has no process, and the count is written.
FireTimerStartFails(t, how) ==
    /\ t \in BagToSet(timers)
    /\ timers' = timers (-) SetToBag({t})
    /\ \/ /\ how = "throws"
          /\ UNCHANGED <<workers, orphans, healthChecks, restartCounts>>
       \/ /\ how = "error"
          /\ workers' = MapSet(workers, t.name, "exited")
          /\ orphans' = [orphans EXCEPT ![t.name] = IF TrackedRunning(t.name) THEN @ + 1 ELSE @]
          /\ healthChecks' = MapSet(healthChecks, t.name, TRUE)
          /\ restartCounts' = MapSet(restartCounts, t.name, t.restartCount + 1)
    /\ UNCHANGED <<killed, alerts, maxReached, windowElapsed, config, calls, snapshots,
                   enabled, admin, scan, noted>>

\* restartWorker that schedules the start without stopping the old process.
RestartWorkerAllNoKill(S) ==
    LET go == {x \in S : GetRestartCount(x) < maxRestarts} IN
    /\ Load + Cardinality(go) <= MaxLoad
    /\ maxReached' = maxReached \cup (S \ go)
    /\ timers' = timers (+) SetToBag({Timer(x, GetRestartCount(x), restartDelay,
                                            "restartWorker") : x \in go})
    /\ UNCHANGED <<workers, killed, restartCounts, healthChecks, orphans, alerts,
                   windowElapsed, config, calls, snapshots, enabled, admin, noted>>

\* restartWorker without the test of the restart count against maxRestarts.
RestartWorkerAllNoLimit(S) ==
    /\ Load + Cardinality(S) <= MaxLoad
    /\ killed' = [x \in WorkerNames |->
                    IF x \in S /\ TrackedRunning(x) THEN killed[x] + 1 ELSE killed[x]]
    /\ workers' = [x \in DOMAIN workers \ S |-> workers[x]]
    /\ timers' = timers (+) SetToBag({Timer(x, GetRestartCount(x), restartDelay,
                                            "restartWorker") : x \in S})
    /\ UNCHANGED <<restartCounts, healthChecks, orphans, alerts, windowElapsed,
                   maxReached, config, calls, snapshots, enabled, admin, noted>>

\* restartWorker(name) applied to every name in S (S is a single name for a
\* direct call; the scan calls it for each unhealthy worker in turn).
RestartWorkerAll(S) ==
    LET go == {x \in S : GetRestartCount(x) < maxRestarts} IN
    /\ Load + Cardinality(go) <= MaxLoad
    /\ maxReached' = maxReached \cup (S \ go)
    /\ killed' = [x \in WorkerNames |->
                    IF x \in go /\ TrackedRunning(x) THEN killed[x] + 1 ELSE killed[x]]
    /\ workers' = [x \in DOMAIN workers \ go |-> workers[x]]
    /\ timers' = timers (+) SetToBag({Timer(x, GetRestartCount(x), restartDelay,
                                            "restartWorker") : x \in go})
    /\ UNCHANGED <<restartCounts, healthChecks, orphans, alerts, windowElapsed,
                   config, calls, snapshots, enabled, admin, noted>>

\* restartWorker(name), called directly (POST /api/workers/restart/:name).
restartWorker(name) == RestartWorkerAll({name}) /\ UNCHANGED scan

\* determineRecoveryStrategy(target): a worker that is not healthy is to be
\* restarted.
determineRecoveryStrategy(target) == "restart"

\* A recovery that does nothing.
triggerRecoverySkipped(target) ==
    UNCHANGED <<workers, killed, timers, maxReached, restartCounts, healthChecks, orphans,
                alerts, windowElapsed, config, calls, snapshots, enabled, admin, noted>>

\* triggerRecovery(target): case 'restart' calls
\* workerManager.restartWorker(target).
triggerRecovery(target) ==
    /\ determineRecoveryStrategy(target) = "restart"
    /\ RestartWorkerAll({target})

\* scanDependencies() run in one turn of the event loop (every probe settles
\* at once): every enabled worker whose verdict is not healthy is handed to
\* triggerRecovery.  The caller drops the results.
scanDependencies ==
    /\ RestartWorkerAll({w \in WorkerNames : Enabled(w) /\ ~checkWorkerHealth(w)})
    /\ UNCHANGED scan

\* stopAllWorkers without this.workers.clear(): the handles stay in the Map.
stopAllWorkersNoClear ==
    /\ workers # << >>
    /\ killed' = [x \in WorkerNames |->
                    IF TrackedRunning(x) THEN killed[x] + 1 ELSE killed[x]]
    /\ noted' = Note([noted EXCEPT !.stopped = TRUE])
    /\ UNCHANGED <<workers, restartCounts, healthChecks, timers, orphans, alerts,
                   maxReached, windowElapsed, config, calls, snapshots, enabled, admin, scan>>

\* stopAllWorkers(): kill every tracked handle, clear the Map.
stopAllWorkers ==
    /\ workers # << >>
    /\ killed' = [x \in WorkerNames |->
                    IF TrackedRunning(x) THEN killed[x] + 1 ELSE killed[x]]
    /\ workers' = << >>
    /\ noted' = Note([noted EXCEPT !.stopped = TRUE])
    /\ UNCHANGED <<restartCounts, healthChecks, timers, orphans, alerts,
                   maxReached, windowElapsed, config, calls, snapshots, enabled, admin, scan>>

\* Time passes: resetInterval (1 hour) has gone by since the first restart of
\* the worker's current window.  Every restart delay is far shorter, so no
\* timer of the worker is still pending by then.
ResetIntervalElapses(name) ==
    /\ GetRestartCount(name) > 0
    /\ ~windowElapsed[name]
    /\ TimersOf(name) = {}
    /\ windowElapsed' = [windowElapsed EXCEPT ![name] = TRUE]
    /\ noted' = Note([noted EXCEPT !.autoStarts[name] = 0])
    /\ UNCHANGED <<workers, restartCounts, healthChecks, timers, orphans, killed,
                   alerts, maxReached, config, calls, snapshots, enabled, admin, scan>>

\* ------------------------------------------------------------------------
\* Healdec: safeUpdate and rollback
\* ------------------------------------------------------------------------

\* The safeUpdate calls of a run.
Calls == 1 .. MaxCalls

\* What safeUpdate can be asked to update: a configured worker or a name
\* CONFIG.workers does not hold.
Targets == WorkerNames \cup {"nonexistent"}

\* CONFIG.workers[target] of a name it does not hold (undefined).
Undefined == -1

\* The configuration the updateFn of a call writes (one new value per call).
NewConfig(c) == c

\* A call slot before safeUpdate is called.
IdleCall == [pc |-> "idle", target |-> "nonexistent", backup |-> Undefined,
             invoked |-> FALSE, threw |-> FALSE, verified |-> FALSE,
             validated |-> FALSE, probed |-> FALSE, restored |-> FALSE,
             restarted |-> FALSE, rbHealthy |-> FALSE, result |-> "none"]

\* The boolean safeUpdate returns for each way it ends.
ReturnValue(result) == result = "Committed"

\* backupConfig(target): a copy of the target's current configuration.
backupConfig(target) == IF target \in WorkerNames THEN config[target] ELSE Undefined

\* A ConfigSnapshot: the copied configuration and its place in the order the
\* target's snapshots were taken in.
ConfigSnapshot(cfg, seq) == [config |-> cfg, seq |-> seq]

\* The number of snapshots taken of a target so far.
Taken(history) == IF history = << >> THEN 0 ELSE history[Len(history)].seq

\* A history that drops nothing.
keepEverySnapshot(history, cfg) ==
    Append(history, ConfigSnapshot(cfg, Taken(history) + 1))

\* The history after a new snapshot of cfg: the newest goes last, and beyond
\* keepBackups the oldest is dropped.
keepSnapshot(history, cfg) ==
    LET all == Append(history, ConfigSnapshot(cfg, Taken(history) + 1))
    IN  IF Len(all) > keepBackups THEN Tail(all) ELSE all

\* validate without the look-up of the name in CONFIG.workers.
validateAnyTarget(target, ok) == ok

\* validate(target): false for a name CONFIG.workers does not hold; for a
\* configured worker the outcome of the path, dependency and database checks
\* (ok).
validate(target, ok) == target \in WorkerNames /\ ok

\* stopComponent(target): the tracked handle is killed and forgotten.
stopComponent(target) ==
    /\ killed' = [killed EXCEPT ![target] = IF TrackedRunning(target) THEN @ + 1 ELSE @]
    /\ workers' = MapDelete(workers, target)

\* startComponent(target): the worker is started with the live configuration.
startComponent(target) == startWorker(target)

\* safeUpdate(target, updateFn) is called: it logs and calls backupConfig.
SafeUpdateCall(c, target) ==
    /\ calls[c].pc = "idle"
    /\ \A d \in Calls : d < c => calls[d].pc # "idle"
    /\ calls' = [calls EXCEPT ![c] = [@ EXCEPT !.pc = "backup", !.target = target]]
    /\ UNCHANGED <<config, snapshots, workerVars, scanVars, admin>>

\* 1. const backup = await this.backupConfig(target)
Backup(c) ==
    /\ calls[c].pc = "backup"
    /\ calls' = [calls EXCEPT ![c] = [@ EXCEPT !.pc = "validate",
                                              !.backup = backupConfig(calls[c].target)]]
    /\ snapshots' = [w \in WorkerNames |->
                       IF w = calls[c].target
                       THEN keepSnapshot(snapshots[w], backupConfig(w))
                       ELSE snapshots[w]]
    /\ UNCHANGED <<config, workerVars, scanVars, admin>>

\* safeUpdate with updateFn called before the validation result is looked at.
ValidateAfterApply(c, ok) ==
    /\ calls[c].pc = "validate"
    /\ IF validate(calls[c].target, ok)
       THEN /\ calls' = [calls EXCEPT ![c] = [@ EXCEPT !.pc = "apply", !.validated = TRUE]]
            /\ UNCHANGED config
       ELSE /\ calls' = [calls EXCEPT ![c] = [@ EXCEPT !.pc = "done", !.invoked = TRUE,
                                                      !.result = "Rejected"]]
            /\ config' = [w \in WorkerNames |->
                            IF w = calls[c].target THEN NewConfig(c) ELSE config[w]]
    /\ UNCHANGED <<snapshots, workerVars, scanVars, admin>>

\* 2. const validated = await this.validate(target); if (!validated) return false
Validate(c, ok) ==
    /\ calls[c].pc = "validate"
    /\ IF validate(calls[c].target, ok)
       THEN calls' = [calls EXCEPT ![c] = [@ EXCEPT !.pc = "apply", !.validated = TRUE]]
       ELSE calls' = [calls EXCEPT ![c] = [@ EXCEPT !.pc = "done", !.result = "Rejected"]]
    /\ UNCHANGED <<config, snapshots, workerVars, scanVars, admin>>

\* safeUpdate that does not wait for the validation before it calls updateFn.
ApplyUnvalidated(c, outcome) ==
    /\ calls[c].pc \in {"validate", "apply"}
    /\ config' = IF outcome = "throwBefore" THEN config
                 ELSE [config EXCEPT ![calls[c].target] = NewConfig(c)]
    /\ calls' = [calls EXCEPT ![c] =
                   [@ EXCEPT !.invoked = TRUE,
                             !.threw = outcome # "ok",
                             !.pc = IF outcome = "ok" THEN "verify" ELSE "rb_stop"]]
    /\ UNCHANGED <<snapshots, workerVars, scanVars, admin>>

\* 3. await updateFn(): the caller's function writes the new configuration
\* and completes ("ok"), or throws before or after the write.
Apply(c, outcome) ==
    /\ calls[c].pc = "apply"
    /\ config' = IF outcome = "throwBefore" THEN config
                 ELSE [config EXCEPT ![calls[c].target] = NewConfig(c)]
    /\ calls' = [calls EXCEPT ![c] =
                   [@ EXCEPT !.invoked = TRUE,
                             !.threw = outcome # "ok",
                             !.pc = IF outcome = "ok" THEN "verify" ELSE "rb_stop"]]
    /\ UNCHANGED <<snapshots, workerVars, scanVars, admin>>

\* 4. const healthy = await this.healthCheck(target): return true when healthy,
\* else throw into the catch block, which calls rollback(target, backup).
Verify(c, healthy) ==
    /\ calls[c].pc = "verify"
    /\ calls' = [calls EXCEPT ![c] =
                   IF healthy
                   THEN [@ EXCEPT !.probed = TRUE, !.verified = TRUE, !.pc = "done",
                                  !.result = "Committed"]
                   ELSE [@ EXCEPT !.probed = TRUE, !.pc = "rb_stop"]]
    /\ UNCHANGED <<config, snapshots, workerVars, scanVars, admin>>

\* rollback: await this.stopComponent(target); then
\* CONFIG.workers[target] = backup and startComponent is called.  When
\* stopComponent throws, rollback's catch returns false and safeUpdate
\* returns false.
RollbackStop(c, ok) ==
    /\ calls[c].pc = "rb_stop"
    /\ IF ok
       THEN /\ stopComponent(calls[c].target)
            /\ config' = [config EXCEPT ![calls[c].target] = calls[c].backup]
            /\ calls' = [calls EXCEPT ![c] = [@ EXCEPT !.pc = "rb_start", !.restored = TRUE]]
       ELSE /\ calls' = [calls EXCEPT ![c] = [@ EXCEPT !.pc = "done", !.result = "RolledBack"]]
            /\ UNCHANGED <<config, workers, killed>>
    /\ UNCHANGED <<restartCounts, healthChecks, timers, orphans, alerts, maxReached,
                   windowElapsed, snapshots, enabled, admin, scan, noted>>

\* rollback: await this.startComponent(target); then healthCheck is called.
RollbackStart(c, ok) ==
    /\ calls[c].pc = "rb_start"
    /\ IF ok
       THEN /\ startComponent(calls[c].target)
            /\ calls' = [calls EXCEPT ![c] = [@ EXCEPT !.pc = "rb_verify", !.restarted = TRUE]]
       ELSE /\ calls' = [calls EXCEPT ![c] = [@ EXCEPT !.pc = "done", !.result = "RolledBack"]]
            /\ UNCHANGED <<workers, orphans, healthChecks>>
    /\ UNCHANGED <<config, restartCounts, timers, killed, alerts, maxReached,
                   windowElapsed, snapshots, enabled, admin, scan, noted>>

\* rollback: const healthy = await this.healthCheck(target); alertAdmin when
\* it is not; safeUpdate then returns false.
RollbackVerify(c, healthy) ==
    /\ calls[c].pc = "rb_verify"
    /\ calls' = [calls EXCEPT ![c] = [@ EXCEPT !.pc = "done", !.rbHealthy = healthy,
                                              !.result = "RolledBack"]]
    /\ alerts' = IF healthy THEN alerts ELSE alertAdmin(calls[c].target, "Rollback failed")
    /\ UNCHANGED <<config, workers, restartCounts, healthChecks, timers, orphans, killed,
                   maxReached, windowElapsed, snapshots, enabled, admin, scan, noted>>

\* ------------------------------------------------------------------------
\* Healdec: scanDependencies, probe by probe
\* ------------------------------------------------------------------------

\* No scan is running.
IdleScan == [pc |-> "idle", at |-> 0, results |-> << >>, late |-> FALSE]

\* A loop without `if (!worker.enabled) continue`: the next position.
NextEntry(i) == IF i < Len(ScanOrder) THEN i + 1 ELSE 0

\* The position in Object.entries(CONFIG.workers) of the first enabled worker
\* after position i (`if (!worker.enabled) continue`), 0 when there is none.
NextEnabled(i) ==
    LET later == {k \in (i + 1) .. Len(ScanOrder) : Enabled(ScanOrder[k])}
    IN  IF later = {} THEN 0 ELSE CHOOSE k \in later : \A m \in later : k <= m

\* The for loop goes on after position i with the results so far: it awaits
\* the probe of the next enabled worker, or returns the results.
Continue(i, results) ==
    IF NextEnabled(i) = 0
    THEN [pc |-> "done", at |-> 0, results |-> results, late |-> FALSE]
    ELSE [pc |-> "probing", at |-> NextEnabled(i), results |-> results, late |-> FALSE]

\* scanDependencies() is called (the monitoring tick): results = [], and the
\* loop runs up to its first await.
ScanCall ==
    /\ scan.pc \in {"idle", "done", "failed"}
    /\ scan' = Continue(0, << >>)
    /\ UNCHANGED <<workerVars, updateVars, enabled, admin>>

\* `await this.checkWorkerHealth(name)` settles.  With a verdict: it is
\* pushed to the results, triggerRecovery is called when it is not healthy,
\* and the loop goes on.  With an exception: nothing catches it, so the
\* promise of scanDependencies rejects and the results are lost.
ProbeSettles(outcome) ==
    /\ scan.pc = "probing"
    /\ LET name == ScanOrder[scan.at]
           health == checkWorkerHealth(name)
       IN  \/ /\ outcome = "verdict"
              /\ scan' = Continue(scan.at, Append(scan.results,
                                                  [name |-> name, healthy |-> health]))
              /\ IF health
                 THEN UNCHANGED <<workerVars, updateVars, enabled, admin>>
                 ELSE triggerRecovery(name)
           \/ /\ outcome = "throws"
              /\ scan' = [pc |-> "failed", at |-> 0, results |-> << >>, late |-> FALSE]
              /\ UNCHANGED <<workerVars, updateVars, enabled, admin>>

\* The probe awaited by the scan has been pending for longer than the probe
\* timeout.  Nothing in scanDependencies watches the clock: the await goes on.
ProbeTimeoutElapses ==
    /\ scan.pc = "probing" /\ ~scan.late
    /\ scan' = [scan EXCEPT !.late = TRUE]
    /\ UNCHANGED <<workerVars, updateVars, enabled, admin>>

\* ------------------------------------------------------------------------
\* Admin console: WorkerHealthComponent and WorkerService
\* ------------------------------------------------------------------------

\* The worker ids the view shows (the ids of the first two listed workers).
WorkerIds == {"1", "2"}

\* null
Null == "null"

\* The three operations of WorkerService that post to /workers/:id/<op>.
Ops == {"restart", "stop", "start"}

\* The fields of a constructed WorkerHealthComponent, with nothing requested:
\* loading = true, processingWorker = null.  polling: ngOnInit has run.
\* loads: getWorkers requests in flight; posts: the posts in flight (a bag).
\* The error field is left out: every WorkerService observable ends in
\* catchError(() => of(...)), so no error callback of the component runs.
AdminInit ==
    [loading |-> TRUE, processingWorker |-> Null, polling |-> FALSE,
     loads |-> 0, posts |-> EmptyBag]

Post(op, workerId) == [op |-> op, workerId |-> workerId]

InFlight == admin.loads + BagCardinality(admin.posts)

\* ngOnInit(): loadWorkers() and setInterval(() => this.loadWorkers(), 10000).
ngOnInit ==
    /\ ~admin.polling
    /\ admin' = [admin EXCEPT !.polling = TRUE, !.loads = @ + 1]
    /\ UNCHANGED <<workerVars, updateVars, scanVars>>

\* The interval callback: loadWorkers().
IntervalTick ==
    /\ admin.polling
    /\ InFlight < MaxInFlight
    /\ admin' = [admin EXCEPT !.loads = @ + 1]
    /\ UNCHANGED <<workerVars, updateVars, scanVars>>

\* The next callback of loadWorkers: this.workers = workers; loading = false.
LoadWorkersNext ==
    /\ admin.loads > 0
    /\ admin' = [admin EXCEPT !.loads = @ - 1, !.loading = FALSE]
    /\ UNCHANGED <<workerVars, updateVars, scanVars>>

\* restartWorker / stopWorker / startWorker(workerId) of the component:
\* this.processingWorker = workerId, and the post is sent.
Request(op, workerId) ==
    /\ admin.polling
    /\ InFlight < MaxInFlight
    /\ admin' = [admin EXCEPT !.processingWorker = workerId,
                              !.posts = @ (+) SetToBag({Post(op, workerId)})]
    /\ UNCHANGED <<workerVars, updateVars, scanVars>>

\* The next callback of a post (reached on success and, through catchError,
\* on failure): this.processingWorker = null; this.loadWorkers().
RequestNext(r) ==
    /\ r \in BagToSet(admin.posts)
    /\ admin' = [admin EXCEPT !.processingWorker = Null,
                              !.posts = @ (-) SetToBag({r}),
                              !.loads = @ + 1]
    /\ UNCHANGED <<workerVars, updateVars, scanVars>>

\* ------------------------------------------------------------------------
\* Specification of the worker manager
\* ------------------------------------------------------------------------

vars == <<workers, restartCounts, healthChecks, timers, orphans, killed,
          alerts, maxReached, windowElapsed, config, calls, snapshots, enabled, admin, scan,
          noted>>

\* The state after construction, with the workers enabled as en says, and
\* with the past being noted or not.
InitState(en, noting) ==
    /\ workers = << >>
    /\ restartCounts = << >>
    /\ healthChecks = << >>
    /\ timers = EmptyBag
    /\ orphans = [w \in WorkerNames |-> 0]
    /\ killed = [w \in WorkerNames |-> 0]
    /\ alerts = {}
    /\ maxReached = {}
    /\ windowElapsed = [w \in WorkerNames |-> FALSE]
    /\ config = [w \in WorkerNames |-> 0]
    /\ calls = [c \in Calls |-> IdleCall]
    /\ snapshots = [w \in WorkerNames |-> << >>]
    /\ enabled = en
    /\ admin = AdminInit
    /\ scan = IdleScan
    /\ noted = [Unnoted EXCEPT !.on = noting]

Init == InitState([w \in WorkerNames |-> EnabledByDefault(w)], FALSE)

Next ==
    \/ startWorkers
    \/ \E w \in WorkerNames, k \in {"tracked", "orphan", "killed"}, c \in ExitCodes :
          Exit(w, k, c)
    \/ \E t \in BagToSet(timers) : FireTimer(t)
    \/ \E w \in WorkerNames : restartWorker(w)
    \/ scanDependencies
    \/ stopAllWorkers
    \/ \E w \in WorkerNames : ResetIntervalElapses(w)

Spec == Init /\ [][Next]_vars

\* The event loop runs every due setTimeout callback: a worker with a pending
\* timer eventually has one of its timers fired.
TimersFire == \A w \in WorkerNames : WF_vars(\E t \in TimersOf(w) : FireTimer(t))

LiveSpec == Init /\ [][Next]_vars /\ TimersFire

\* The worker manager with the past of the run noted.
InitNoted == InitState([w \in WorkerNames |-> EnabledByDefault(w)], TRUE)

SpecNoted == InitNoted /\ [][Next]_vars

\* ------------------------------------------------------------------------
\* Specification of the worker manager with workers that may fail to launch
\* ------------------------------------------------------------------------

LaunchNext ==
    \/ startWorkers
    \/ \E w \in WorkerNames, k \in {"tracked", "orphan", "killed"}, c \in ExitCodes :
          Exit(w, k, c)
    \/ \E t \in BagToSet(timers) : FireTimer(t)
    \/ \E t \in BagToSet(timers), how \in {"throws", "error"} : FireTimerStartFails(t, how)
    \/ \E w \in WorkerNames : restartWorker(w)
    \/ scanDependencies
    \/ stopAllWorkers

SpecLaunch == Init /\ [][LaunchNext]_vars

\* ------------------------------------------------------------------------
\* Specification of the configuration updates
\* ------------------------------------------------------------------------

UpdateNext ==
    \/ startWorkers
    \/ \E c \in Calls, target \in Targets : SafeUpdateCall(c, target)
    \/ \E c \in Calls : Backup(c)
    \/ \E c \in Calls, ok \in BOOLEAN : Validate(c, ok)
    \/ \E c \in Calls, outcome \in {"ok", "throwBefore", "throwAfter"} : Apply(c, outcome)
    \/ \E c \in Calls, healthy \in BOOLEAN : Verify(c, healthy)
    \/ \E c \in Calls, ok \in BOOLEAN : RollbackStop(c, ok)
    \/ \E c \in Calls, ok \in BOOLEAN : RollbackStart(c, ok)
    \/ \E c \in Calls, healthy \in BOOLEAN : RollbackVerify(c, healthy)

SpecUpdate == Init /\ [][UpdateNext]_vars

\* ------------------------------------------------------------------------
\* Specification of the scanner: any setting of the enabled flags
\* ------------------------------------------------------------------------

InitScan == \E en \in [WorkerNames -> BOOLEAN] : InitState(en, FALSE)

ScanNext ==
    \/ startWorkers
    \/ \E w \in WorkerNames, k \in {"tracked", "orphan", "killed"}, c \in ExitCodes :
          Exit(w, k, c)
    \/ \E t \in BagToSet(timers) : FireTimer(t)
    \/ ScanCall
    \/ \E outcome \in {"verdict", "throws"} : ProbeSettles(outcome)
    \/ ProbeTimeoutElapses

SpecScan == InitScan /\ [][ScanNext]_vars

\* The admin worker-health view alone: the operator's clicks, the polling
\* interval and the responses.
AdminNext ==
    \/ ngOnInit
    \/ IntervalTick
    \/ LoadWorkersNext
    \/ \E op \in Ops, id \in WorkerIds : Request(op, id)
    \/ \E r \in BagToSet(admin.posts) : RequestNext(r)

SpecAdmin == Init /\ [][AdminNext]_vars

\* ------------------------------------------------------------------------
\* Specification of the snapshot history: one caller, one call at a time
\* ------------------------------------------------------------------------

RECURSIVE TakenIn(_)
TakenIn(S) == IF S = {} THEN 0
              ELSE LET x == CHOOSE y \in S : TRUE IN Taken(snapshots[x]) + TakenIn(S \ {x})

\* The caller has its result and makes its next call: the record of the
\* returned call is dropped.
Return(c) ==
    /\ calls[c].pc = "done"
    /\ TakenIn(WorkerNames) < MaxSnapshots
    /\ calls' = [calls EXCEPT ![c] = IdleCall]
    /\ UNCHANGED <<config, snapshots, workerVars, scanVars, admin>>

SnapshotNext ==
    \/ \E target \in Targets : SafeUpdateCall(1, target)
    \/ Backup(1)
    \/ \E ok \in BOOLEAN : Validate(1, ok)
    \/ \E outcome \in {"ok", "throwBefore", "throwAfter"} : Apply(1, outcome)
    \/ \E healthy \in BOOLEAN : Verify(1, healthy)
    \/ \E ok \in BOOLEAN : RollbackStop(1, ok)
    \/ \E ok \in BOOLEAN : RollbackStart(1, ok)
    \/ \E healthy \in BOOLEAN : RollbackVerify(1, healthy)
    \/ Return(1)

SpecSnapshots == Init /\ [][SnapshotNext]_vars

\* ------------------------------------------------------------------------
\* Restart policy: properties
\* ------------------------------------------------------------------------

\* C1: in every reachable state every worker has at most one restart timer
\* pending (an unhealthy signal that arrives while one is pending creates no
\* second timer).
C1_OneTimerPerWorker == \A w \in WorkerNames : PendingCount(w) <= 1

\* C2: the restart count of every worker never exceeds maxRestarts.
C2_CountBounded == \A w \in WorkerNames : GetRestartCount(w) <= maxRestarts

\* A worker whose count stands at the maximum after a further unhealthy signal
\* has been turned away.
C2_Witness == \E w \in WorkerNames : GetRestartCount(w) = maxRestarts /\ w \in maxReached

\* C3: the unhealthy signal that finds the restart count at or above the
\* maximum marks the worker Failed, raises a critical alert for it with the
\* max-restarts reason, and schedules no restart.
C3_GiveUpAlerts ==
    [][\A w \in WorkerNames :
         (w \notin maxReached /\ w \in maxReached') =>
            /\ Alert("critical", w, "Max restart limit reached") \in alerts'
            /\ timers' = timers]_vars

\* C4: Failed is absorbing under automatic actions: once the policy has given
\* up on a worker, no exit event, scan verdict or pending timer starts a
\* process for it or takes it out of Failed.
C4_FailedAbsorbing ==
    [][\A w \in maxReached : w \in maxReached' /\ LiveCount(w)' <= LiveCount(w)]_vars

\* C5: every scheduled restart made at restart count c is delayed by
\* restartDelay * 2^c, and the timer that fires raises the count by exactly one.
C5_BackoffDelay ==
    /\ [](\A t \in BagToSet(timers) :
             t.delay = restartDelay * Pow(backoffMultiplier, t.restartCount))
    /\ [][\A t \in BagToSet(timers) :
             CopiesIn(t, timers') < CopiesIn(t, timers) =>
                GetRestartCount(t.name)' = GetRestartCount(t.name) + 1]_vars

\* C6: a crash that arrives after the reset window has elapsed is handled
\* with the count reset to zero: its restart is scheduled with count 0 and
\* delay restartDelay.  (The exit handler of a crash is the only step that
\* ends an elapsed window.)
C6_ResetAfterWindow ==
    [][\A w \in WorkerNames :
         (windowElapsed[w] /\ ~windowElapsed'[w]) =>
            timers' = timers (+) SetToBag({Timer(w, 0, restartDelay,
                                                 "handleWorkerFailure")})]_vars

\* The exit handler has run for a non-zero exit of a worker whose count was
\* below the maximum: the worker is marked not healthy and the restart that
\* handleWorkerFailure scheduled is pending.
CrashAwaitingRestart(w) ==
    /\ w \in DOMAIN healthChecks /\ ~healthChecks[w]
    /\ \E t \in TimersOf(w) : t.via = "handleWorkerFailure"

Returns(c, result) == calls[c].result # result /\ calls'[c].result = result

\* C8: a safeUpdate that returns Rejected has left the live configuration as
\* it was and has not invoked changeFn: no step the call takes up to and
\* including its validation writes CONFIG.workers or calls updateFn, and
\* Rejected is returned from the validation step only.
C8_RejectedUntouched ==
    [][\A c \in Calls :
         /\ (calls[c].pc \in {"idle", "backup", "validate"} /\ calls'[c] # calls[c]) =>
               (config' = config /\ ~calls'[c].invoked)
         /\ Returns(c, "Rejected") => calls[c].pc = "validate"]_vars

\* A call on a configured worker was rejected while another call applied its
\* change.
C8_Witness ==
    \E c, d \in Calls :
       /\ calls[c].result = "Rejected" /\ calls[c].target \in WorkerNames
       /\ calls[d].invoked /\ config[calls[d].target] # 0

\* C9: when safeUpdate returns Committed, changeFn completed without an
\* exception, the new configuration is the live one, and the health probe
\* taken after the apply step was Healthy.
C9_CommittedLive ==
    [][\A c \in Calls :
         Returns(c, "Committed") =>
            /\ calls'[c].invoked /\ ~calls'[c].threw
            /\ calls'[c].verified
            /\ config'[calls[c].target] = NewConfig(c)]_vars

\* C10: when safeUpdate returns RolledBack, the live configuration of the
\* target is the pre-change snapshot and the target was verified Healthy, or
\* the target is Failed.
C10_RolledBackSafe ==
    [][\A c \in Calls :
         Returns(c, "RolledBack") =>
            \/ /\ config'[calls[c].target] = calls[c].backup
               /\ calls'[c].rbHealthy
            \/ calls[c].target \in maxReached']_vars

\* ------------------------------------------------------------------------
\* safeUpdate: concurrency, rollback and ordering properties
\* ------------------------------------------------------------------------

\* A safeUpdate call that was made and has not returned yet.
InProgress(c) == calls[c].pc \notin {"idle", "done"}

\* C11: two safeUpdate calls for the same target are mutually exclusive: no
\* step of the second call begins before the first has returned, so no two
\* calls for one target are in progress at the same time.
C11_MutualExclusion ==
    \A c, d \in Calls :
       (c # d /\ InProgress(c) /\ InProgress(d)) => calls[c].target # calls[d].target

\* The step in which call c returns.
Returning(c) == calls[c].pc # "done" /\ calls'[c].pc = "done"

\* C12: whenever changeFn throws, or the probe after the apply step is not
\* Healthy, safeUpdate calls rollback, which restores the configuration from
\* the snapshot taken before the apply step and restarts the target, and
\* safeUpdate returns RolledBack, never Committed.
C12_FailureRollsBack ==
    [][\A c \in Calls :
         (Returning(c) /\ calls'[c].invoked /\ (calls'[c].threw \/ ~calls'[c].verified)) =>
            /\ calls'[c].result = "RolledBack"
            /\ calls'[c].restored
            /\ calls'[c].restarted]_vars

\* C13: every safeUpdate that ends RolledBack raises a warning-level alert
\* for the target with the reason "update rolled back", also when the
\* rollback itself succeeded.
C13_RolledBackWarns ==
    [][\A c \in Calls :
         Returns(c, "RolledBack") =>
            Alert("warning", calls[c].target, "update rolled back") \in alerts']_vars

\* C14: a safeUpdate call on a target that is not configured returns
\* Rejected, and none of its steps adds a ConfigSnapshot to any target's
\* history or kills, starts or schedules any worker process.
C14_UnknownTargetRejected ==
    [][\A c \in Calls :
         (calls'[c].target \notin WorkerNames /\ calls'[c] # calls[c]) =>
            /\ snapshots' = snapshots
            /\ workers' = workers /\ timers' = timers
            /\ killed' = killed /\ orphans' = orphans
            /\ Returning(c) => calls'[c].result = "Rejected"]_vars

\* A call on an unknown target was rejected after another call had a
\* snapshot taken.
C14_Witness ==
    \E c \in Calls :
       /\ calls[c].target \notin WorkerNames /\ calls[c].result = "Rejected"
       /\ \E w \in WorkerNames : snapshots[w] # << >>

\* C15: the steps of a safeUpdate call happen in the order backup, validate,
\* apply, verify, commit or rollback: changeFn is invoked only after the
\* backup was taken and the validation succeeded, the verification probe is
\* taken only after changeFn completed, Committed follows a probe and
\* RolledBack follows an invocation of changeFn.
C15_StepOrder ==
    \A c \in Calls :
       /\ calls[c].validated => calls[c].backup # Undefined
       /\ calls[c].invoked => calls[c].validated
       /\ calls[c].probed => (calls[c].invoked /\ ~calls[c].threw)
       /\ calls[c].result = "Committed" => calls[c].probed
       /\ calls[c].result = "RolledBack" => calls[c].invoked
       /\ calls[c].pc \in {"idle", "backup"} => ~calls[c].validated

\* One call was committed after its probe and another was rolled back after
\* its probe failed.
C15_Witness ==
    \E c, d \in Calls :
       /\ calls[c].result = "Committed" /\ calls[c].probed
       /\ calls[d].result = "RolledBack" /\ calls[d].probed

\* C16: when the rollback of a safeUpdate call fails (its probe is not
\* Healthy, or rollback throws), a critical alert is raised for the target
\* and the target is left on its pre-change configuration or is Failed.
C16_FailedRollbackAlerts ==
    [][\A c \in Calls :
         (Returns(c, "RolledBack") /\ ~calls'[c].rbHealthy) =>
            /\ \E a \in alerts' : a.level = "critical" /\ a.component = calls[c].target
            /\ \/ config'[calls[c].target] = calls[c].backup
               \/ calls[c].target \in maxReached']_vars

\* ------------------------------------------------------------------------
\* Snapshot history: properties
\* ------------------------------------------------------------------------

\* C17: the retained ConfigSnapshots of a target never number more than
\* keepBackups; a new snapshot goes last and, when the history is full, the
\* oldest one is dropped (FIFO); a retained snapshot is never changed.
C17_BoundedHistory ==
    /\ [](\A w \in WorkerNames : Len(snapshots[w]) <= keepBackups)
    /\ [][\A w \in WorkerNames :
            snapshots'[w] # snapshots[w] =>
               LET kept == IF Len(snapshots[w]) = keepBackups
                           THEN Tail(snapshots[w]) ELSE snapshots[w]
               IN  /\ Len(snapshots'[w]) = Len(kept) + 1
                   /\ SubSeq(snapshots'[w], 1, Len(kept)) = kept
                   /\ snapshots'[w][Len(kept) + 1].seq > Taken(snapshots[w])]_vars

\* A full history whose oldest snapshot has been dropped.
C17_Witness ==
    \E w \in WorkerNames :
       /\ Len(snapshots[w]) = keepBackups
       /\ snapshots[w][1].seq > 1
       /\ \E i, j \in 1 .. keepBackups : snapshots[w][i].config # snapshots[w][j].config

\* ------------------------------------------------------------------------
\* restartWorker and stopAllWorkers: properties
\* ------------------------------------------------------------------------

\* The step is a restartWorker(w) call that schedules a start of w.
SchedulesRestart(w) ==
    \E t \in BagToSet(timers') :
       /\ t.name = w /\ t.via = "restartWorker"
       /\ CopiesIn(t, timers') > CopiesIn(t, timers)

\* C18: restartWorker(name) sends kill to the tracked handle of the worker
\* and forgets it in the call itself, before the start it schedules can
\* run: the call starts no process, and it leaves the handles and the
\* processes as they are when no handle of the worker is tracked.
C18_KillBeforeStart ==
    [][\A w \in WorkerNames :
         SchedulesRestart(w) =>
            /\ w \notin DOMAIN workers'
            /\ killed'[w] = killed[w] + (IF TrackedRunning(w) THEN 1 ELSE 0)
            /\ LiveCount(w)' = LiveCount(w)
            /\ w \notin DOMAIN workers => (workers' = workers /\ killed' = killed)]_vars

\* A restart is scheduled for a worker whose running process was sent kill
\* and whose handle is gone.
C18_Witness ==
    \E w \in WorkerNames :
       /\ \E t \in TimersOf(w) : t.via = "restartWorker"
       /\ killed[w] > 0 /\ w \notin DOMAIN workers

\* C19: each restartWorker call that restarts the worker raises its recorded
\* restart count by exactly one, so that n consecutive calls on a started
\* worker whose count was 0 leave the count at n.
C19_CountPerCall ==
    [][\A w \in WorkerNames :
         (SchedulesRestart(w) /\ TrackedRunning(w)) =>
            GetRestartCount(w)' = GetRestartCount(w) + 1]_vars

\* C20: a stopAllWorkers call (the step that sends kill without scheduling
\* anything) sends kill to every handle tracked when it is called and leaves
\* the table of handles empty, however many workers were started.
C20_StopAllKillsAll ==
    [][((\E w \in WorkerNames : killed'[w] > killed[w]) /\ timers' = timers) =>
          /\ workers' = << >>
          /\ \A w \in WorkerNames :
                killed'[w] = killed[w] + (IF TrackedRunning(w) THEN 1 ELSE 0)]_vars

\* Both workers were running when stopAllWorkers was called: both were sent
\* kill and no handle is left.
C20_Witness ==
    /\ workers = << >>
    /\ \A w \in WorkerNames : killed[w] > 0

\* ------------------------------------------------------------------------
\* Health registry and scanner: properties
\* ------------------------------------------------------------------------

Scanned == {scan.results[i].name : i \in 1 .. Len(scan.results)}

C23_ProbeVerdict ==
    \A w \in WorkerNames, recentActivity, lowErrorRate \in BOOLEAN :
       healthObject(w, recentActivity, lowErrorRate).healthy
          <=> (TrackedRunning(w) /\ recentActivity /\ lowErrorRate)

\* C24: when the probe a scan is waiting for exceeds its timeout, the scan
\* records the verdict "not healthy" for that worker and goes on to the next
\* worker or returns: it does not wait any longer for that probe.
C24_TimeoutRecorded ==
    [][(~scan.late /\ scan'.late) =>
          /\ \E i \in 1 .. Len(scan'.results) :
                scan'.results[i] = [name |-> ScanOrder[scan.at], healthy |-> FALSE]
          /\ scan'.at # scan.at]_vars

\* C25: when the probe of one worker raises an error during a scan, the
\* verdicts of the other enabled workers are still recorded: the verdicts
\* collected before the error are kept, and no enabled worker after the
\* failing one is left without a probe.
C25_PartialFailureRecorded ==
    [][(scan.pc = "probing" /\ scan'.pc = "failed") =>
          /\ \A i \in 1 .. Len(scan.results) :
                \E j \in 1 .. Len(scan'.results) : scan'.results[j] = scan.results[i]
          /\ NextEnabled(scan.at) = 0]_vars

\* Timers of worker w made by restartWorker, counted in bag b.
RestartTimersIn(b, w) ==
    BagCardinality([t \in {x \in BagToSet(b) : x.name = w /\ x.via = "restartWorker"} |-> b[t]])

C27_FailedStartCounts ==
    [][\A t \in BagToSet(timers) :
         (CopiesIn(t, timers') < CopiesIn(t, timers) /\ LiveCount(t.name)' = LiveCount(t.name)) =>
            GetRestartCount(t.name)' = t.restartCount + 1]_vars

\* Processes of a worker that are running and were not sent kill.
Running(w) == (IF TrackedRunning(w) THEN 1 ELSE 0) + orphans[w]

\* C29: in every reachable state at most one process of a worker is running
\* (a process that was sent kill and has not exited yet is not counted).
C29_OneLiveProcess == \A w \in WorkerNames : Running(w) <= 1

\* C28: for every worker, the processes started by automatic restarts (the
\* timers of handleWorkerFailure) within one reset window never number more
\* than maxRestarts.
C28_StartsWithinBudget == \A w \in WorkerNames : noted.autoStarts[w] <= maxRestarts

\* C30: once stopAllWorkers has been called, no step starts a worker
\* process: neither the exit events of the killed workers nor the restart
\* timers that were pending lead to a start.
C30_NoStartAfterStop ==
    [][noted.stopped => \A w \in WorkerNames : LiveCount(w)' <= LiveCount(w)]_vars

\* ------------------------------------------------------------------------
\* restartWorker at the limit, the exit handler: properties
\* ------------------------------------------------------------------------

\* C31: a restartWorker(name) call for a worker whose restart count is at or
\* above maxRestarts changes nothing: no process is sent kill, the worker
\* table and the restart counts stay as they are, and no timer is scheduled.
C31_RestartAtLimitNoop ==
    [][\A w \in WorkerNames :
         (GetRestartCount(w) >= maxRestarts /\ restartWorker(w)) =>
            /\ killed' = killed
            /\ workers' = workers
            /\ restartCounts' = restartCounts
            /\ timers' = timers
            /\ LiveCount(w)' = LiveCount(w)]_vars

\* A worker at the limit has a tracked running process, no timer pending and
\* a "Max restarts reached" line logged for it although no failure of it was
\* ever turned away with an alert: the line comes from a restart request that
\* found it healthy and running.
C31_Witness ==
    \E w \in WorkerNames :
       /\ GetRestartCount(w) >= maxRestarts
       /\ TrackedRunning(w) /\ checkWorkerHealth(w)
       /\ TimersOf(w) = {}
       /\ w \in maxReached
       /\ \A a \in alerts : a.component # w

\* C32: every exit of a worker process leaves the worker not healthy,
\* whatever the exit code; an exit with code 0 schedules no restart timer,
\* leaves the restart counts unchanged and raises neither the max-restarts
\* line nor an alert, so a step of the exit handler that does one of these
\* is an exit with a code other than 0.
C32_ExitHandler ==
    [][\A w \in WorkerNames, k \in {"tracked", "orphan", "killed"} :
         /\ \A c \in ExitCodes :
               Exit(w, k, c) => (~checkWorkerHealth(w))' /\ restartCounts' = restartCounts
         /\ Exit(w, k, 0) =>
               /\ timers' = timers
               /\ maxReached' = maxReached
               /\ alerts' = alerts]_vars

\* A worker whose tracked process has exited with code 0: it is not healthy,
\* nothing is pending for it, its count is still 0 and no limit was logged.
C32_Witness ==
    \E w \in WorkerNames :
       /\ w \in DOMAIN workers /\ workers[w] = "exited"
       /\ ~checkWorkerHealth(w)
       /\ TimersOf(w) = {}
       /\ GetRestartCount(w) = 0
       /\ w \notin maxReached

\* ------------------------------------------------------------------------
\* Admin console: properties
\* ------------------------------------------------------------------------

\* C33: in the worker-health view, processingWorker is not null while a
\* restart, stop or start request is still in flight; in particular, of two
\* requests issued for different workers, the completion of one does not
\* clear the marker while the other is still in flight.
C33_MarkerWhileInFlight ==
    admin.posts # EmptyBag => admin.processingWorker # Null

====
